---- MODULE Spec2Model ----
(***************************************************************************)
(* Model of the currency_codes repository: the FxCodes registry            *)
(* (iso_4217_currency_codes.py) and the two command line operations of     *)
(* currency_code.py.                                                       *)
(*                                                                         *)
(* Python values are modelled as follows.                                  *)
(*   str            a sequence of one-character strings, <<"U","S">>       *)
(*   Optional[x]    a set with at most one element: None is {}, x is {x}   *)
(*   dict           a function whose DOMAIN is the set of keys             *)
(*   set            a set                                                  *)
(*   raise          a result record of kind "raise"                        *)
(***************************************************************************)
EXTENDS Integers, Sequences, FiniteSets, TLC

(***************************************************************************)
(* Bounds of the model.                                                    *)
(***************************************************************************)
\* The data file holds at most MaxRecords entries.
MaxRecords == 2
\* A process makes at most MaxQueries calls on the FX_CODES singleton.
MaxQueries == 2

(***************************************************************************)
(* Python helpers.                                                         *)
(***************************************************************************)
None == {}
Some(x) == {x}
TheValue(opt) == CHOOSE x \in opt : TRUE
EmptyStr == << >>
EmptyDict == << >>

\* str.upper(), character by character, over the letters the model uses.
UpperChar(c) ==
    CASE c = "d" -> "D"
      [] c = "e" -> "E"
      [] c = "f" -> "F"
      [] c = "r" -> "R"
      [] c = "s" -> "S"
      [] c = "u" -> "U"
      [] c = "x" -> "X"
      [] OTHER -> c
Upper(s) == [i \in DOMAIN s |-> UpperChar(s[i])]

\* dict.get(key): None when the key is absent.  On a defaultdict, get() does
\* not call the default factory and adds no key.
Get(d, k) == IF k \in DOMAIN d THEN Some(d[k]) ELSE None
\* d[key] = value on a dict: a later write replaces an earlier one.
Put(d, k, v) == [x \in (DOMAIN d) \cup {k} |-> IF x = k THEN v ELSE d[x]]
\* The dict after d[key] on a defaultdict(set): a missing key is added.  The
\* lookups do not subscript; C8 does not hold of a registry that did.
AfterSubscript(d, k) == IF k \in DOMAIN d THEN d ELSE Put(d, k, {})
\* The dict after d.get(key): get() reads, also on a defaultdict.
AfterGet(d, k) == d
\* d[key].add(value) on a defaultdict(set).
AddTo(d, k, v) ==
    [x \in (DOMAIN d) \cup {k} |->
        IF x = k THEN (IF k \in DOMAIN d THEN d[k] ELSE {}) \cup {v} ELSE d[x]]

(***************************************************************************)
(* The data file: a list of entries.  AlphabeticCode is optional (absent   *)
(* and null both read as None through entry.get); Owner and Primary are    *)
(* read through entry.get and tested for truth.                            *)
(***************************************************************************)
EntityValues == { EmptyStr, <<"f","r">>, <<"U","S">> }
CurrencyValues == { <<"D","r">>, <<"e","u">> }
CodeValues == { EmptyStr, <<"u","d">>, <<"E","R">> }

\* An entry without a code is dropped by json_data before any other field of
\* it is read, so one such entry stands for all of them.
NoCodeEntry ==
    [ Entity |-> <<"U","S">>, Currency |-> <<"D","r">>, AlphabeticCode |-> None,
      Owner |-> FALSE, Primary |-> FALSE ]
Entries ==
    [ Entity : EntityValues,
      Currency : CurrencyValues,
      AlphabeticCode : {Some(c) : c \in CodeValues},
      Owner : BOOLEAN,
      Primary : BOOLEAN ] \cup { NoCodeEntry }

DataFiles == UNION { [1..n -> Entries] : n \in 0..MaxRecords }

\* The strings the modelled callers pass: stored strings and case variants
\* of them; each matches nothing in the files that do not hold it.
CountryQueries == { EmptyStr, <<"f","r">>, <<"F","R">>, <<"U","S">> }
IsoQueries == { EmptyStr, <<"u","d">>, <<"E","R">>, <<"e","r">> }
CurrencyQueries == { <<"D","r">>, <<"D","R">>, <<"e","u">> }

(***************************************************************************)
(* FxCodes: the cached properties.                                         *)
(***************************************************************************)
\* A loader that tests the code for truth, dropping the empty code as well;
\* C6_Loaded does not hold of it.
build_json_data_truthy(data) ==
    SelectSeq(data, LAMBDA entry : entry.AlphabeticCode # None
                                     /\ entry.AlphabeticCode # Some(EmptyStr))
\* json_data: the entries whose AlphabeticCode is not None, in file order.
build_json_data(data) ==
    SelectSeq(data, LAMBDA entry : entry.AlphabeticCode # None)

Iso(entry) == TheValue(entry.AlphabeticCode)

RECURSIVE fold_currency_to_currency_iso_map(_, _)
fold_currency_to_currency_iso_map(data, n) ==
    IF n = 0 THEN EmptyDict
    ELSE Put(fold_currency_to_currency_iso_map(data, n - 1),
             Upper(data[n].Currency), Iso(data[n]))
\* An index keyed by the currency name as stored; C4_RoundTrip does not hold
\* of it.
build_currency_to_currency_iso_map_as_stored(data) ==
    [ k \in { data[i].Currency : i \in DOMAIN data } |->
        Iso(data[CHOOSE i \in DOMAIN data :
                    /\ data[i].Currency = k
                    /\ \A j \in DOMAIN data : data[j].Currency = k => j <= i]) ]
build_currency_to_currency_iso_map(data) ==
    fold_currency_to_currency_iso_map(data, Len(data))

RECURSIVE fold_currency_iso_to_currency_map(_, _)
fold_currency_iso_to_currency_map(data, n) ==
    IF n = 0 THEN EmptyDict
    ELSE Put(fold_currency_iso_to_currency_map(data, n - 1),
             Iso(data[n]), data[n].Currency)
build_currency_iso_to_currency_map(data) ==
    fold_currency_iso_to_currency_map(data, Len(data))

RECURSIVE fold_country_to_currency_isos_map(_, _)
fold_country_to_currency_isos_map(data, n) ==
    IF n = 0 THEN EmptyDict
    ELSE AddTo(fold_country_to_currency_isos_map(data, n - 1),
               Upper(data[n].Entity), Iso(data[n]))
build_country_to_currency_isos_map(data) ==
    fold_country_to_currency_isos_map(data, Len(data))

RECURSIVE fold_currency_iso_to_countries_map(_, _)
fold_currency_iso_to_countries_map(data, n) ==
    IF n = 0 THEN EmptyDict
    ELSE AddTo(fold_currency_iso_to_countries_map(data, n - 1),
               Iso(data[n]), data[n].Entity)
build_currency_iso_to_countries_map(data) ==
    fold_currency_iso_to_countries_map(data, Len(data))

RECURSIVE fold_currency_iso_to_owner_country_map(_, _)
fold_currency_iso_to_owner_country_map(data, n) ==
    IF n = 0 THEN EmptyDict
    ELSE IF data[n].Owner
         THEN Put(fold_currency_iso_to_owner_country_map(data, n - 1),
                  Iso(data[n]), data[n].Entity)
         ELSE fold_currency_iso_to_owner_country_map(data, n - 1)
build_currency_iso_to_owner_country_map(data) ==
    fold_currency_iso_to_owner_country_map(data, Len(data))

RECURSIVE fold_country_to_primary_currency_iso_map(_, _)
fold_country_to_primary_currency_iso_map(data, n) ==
    IF n = 0 THEN EmptyDict
    ELSE IF data[n].Primary
         THEN Put(fold_country_to_primary_currency_iso_map(data, n - 1),
                  Upper(data[n].Entity), Iso(data[n]))
         ELSE fold_country_to_primary_currency_iso_map(data, n - 1)
\* An index that keeps a country's first record flagged primary;
\* C7_LastPrimaryWins does not hold of it.
build_country_to_primary_currency_iso_map_first(data) ==
    LET flagged == { i \in DOMAIN data : data[i].Primary }
    IN  [ k \in { Upper(data[i].Entity) : i \in flagged } |->
            Iso(data[CHOOSE i \in flagged :
                        /\ Upper(data[i].Entity) = k
                        /\ \A j \in flagged : Upper(data[j].Entity) = k => i <= j]) ]
build_country_to_primary_currency_iso_map(data) ==
    fold_country_to_primary_currency_iso_map(data, Len(data))

(***************************************************************************)
(* FxCodes: the query methods, as functions of the index they read.        *)
(***************************************************************************)
Return(v) == [kind |-> "return", value |-> v]
Raise(exc, key, candidates) ==
    [kind |-> "raise", exc |-> exc, key |-> key, candidates |-> candidates]

\* currency is Optional[str]: None.upper() raises AttributeError.
currency_iso_from_currency(c2i, currency) ==
    IF currency = None THEN Raise("AttributeError", EmptyStr, {})
    ELSE Return(Get(c2i, Upper(TheValue(currency))))

\* A lookup by subscript, which raises KeyError for a missing key; C9 does
\* not hold of it.
currency_from_currency_iso_subscript(i2c, iso) ==
    IF iso = None THEN Raise("AttributeError", EmptyStr, {})
    ELSE IF Upper(TheValue(iso)) \in DOMAIN i2c
         THEN Return(Some(i2c[Upper(TheValue(iso))]))
         ELSE Raise("KeyError", Upper(TheValue(iso)), {})
currency_from_currency_iso(i2c, iso) ==
    IF iso = None THEN Raise("AttributeError", EmptyStr, {})
    ELSE Return(Get(i2c, Upper(TheValue(iso))))

\* A lookup with the country as given; C5_CaseInsensitive does not hold of
\* it.
currency_isos_from_country_as_given(c2is, country) ==
    LET isos == Get(c2is, country)
    IN  IF isos = None THEN {} ELSE TheValue(isos)
currency_isos_from_country(c2is, country) ==
    LET isos == Get(c2is, Upper(country))
    IN  IF isos = None THEN {} ELSE TheValue(isos)

countries_from_currency_iso(i2cs, currency_iso) ==
    LET countries == Get(i2cs, Upper(currency_iso))
    IN  IF countries = None THEN {} ELSE TheValue(countries)

\* primary is compared with None.
currency_iso_from_country(c2is, c2p, country) ==
    LET currency_isos == currency_isos_from_country(c2is, country)
        count == Cardinality(currency_isos)
        primary == Get(c2p, Upper(country))
    IN  IF count = 0 THEN Return(None)
        ELSE IF count = 1 THEN Return(Some(CHOOSE x \in currency_isos : TRUE))
        ELSE IF primary # None THEN Return(primary)
        ELSE Raise("FxCodesException", country, currency_isos)

\* A lookup that answers one of the candidates where none owns the code;
\* C1_AmbiguityRaises does not hold of it.
country_from_currency_iso_any(i2cs, i2o, currency_iso) ==
    LET countries == countries_from_currency_iso(i2cs, currency_iso)
        owner == Get(i2o, Upper(currency_iso))
    IN  IF countries = {} THEN Return(None)
        ELSE IF owner # None /\ TheValue(owner) # EmptyStr THEN Return(owner)
        ELSE Return(Some(CHOOSE x \in countries : TRUE))
\* owner is tested for truth: None and the empty string are both false.
country_from_currency_iso(i2cs, i2o, currency_iso) ==
    LET countries == countries_from_currency_iso(i2cs, currency_iso)
        count == Cardinality(countries)
        owner == Get(i2o, Upper(currency_iso))
    IN  IF count = 0 THEN Return(None)
        ELSE IF count = 1 THEN Return(Some(CHOOSE x \in countries : TRUE))
        ELSE IF owner # None /\ TheValue(owner) # EmptyStr THEN Return(owner)
        ELSE Raise("FxCodesException", currency_iso, countries)

(***************************************************************************)
(* currency_code.py: the two command line operations, as functions of what *)
(* the registry and the country_codes collaborator answer.                 *)
(***************************************************************************)
\* What one operation shows: the line it prints (a template and the values
\* formatted into it) and the status it returns; neither when it raises.
Printed(template, subject, found, name) ==
    [template |-> template, subject |-> subject, found |-> found, name |-> name]
NoOutput == [outcome |-> "none", printed |-> Printed("", EmptyStr, EmptyStr, None),
             status |-> None]
Raised == [outcome |-> "raise", printed |-> Printed("", EmptyStr, EmptyStr, None),
           status |-> None]

\* COUNTRY_CODES[code]: the display name of a country code.
DisplayName(code) == <<"#">> \o code

\* An operation that tests the country for truth, taking the empty name for
\* unknown; C3_Outcomes does not hold of it.
main_country_from_currency_iso_truthy(iso, r, in_codes, name) ==
    IF r.kind = "raise" THEN Raised
    ELSE IF r.value = None \/ r.value = Some(EmptyStr)
    THEN [outcome |-> "unknown",
          printed |-> Printed("Unknown currency ISO: {iso}", iso, EmptyStr, None),
          status |-> Some(-1)]
    ELSE [outcome |-> "success",
          printed |-> Printed("{iso}: {country} ({currency})", iso,
                              TheValue(r.value), name),
          status |-> Some(0)]
\* r is what FX_CODES.country_from_currency_iso(iso) did; in_codes is
\* `country in COUNTRY_CODES.codes`; name is what
\* FX_CODES.currency_from_currency_iso(iso) answers for the result line.
main_country_from_currency_iso(iso, r, in_codes, name) ==
    IF r.kind = "raise" THEN Raised
    ELSE IF r.value = None
    THEN [outcome |-> "unknown",
          printed |-> Printed("Unknown currency ISO: {iso}", iso, EmptyStr, None),
          status |-> Some(-1)]
    ELSE LET found == TheValue(r.value)
             country == IF in_codes THEN DisplayName(found) ELSE found
         IN  [outcome |-> "success",
              printed |-> Printed("{iso}: {country} ({currency})", iso, country, name),
              status |-> Some(0)]

\* A key choice that never asks for a resolution; C10 does not hold of it.
country_code_verbatim(country, known, resolved) == country
\* The key handed to FX_CODES.currency_iso_from_country: known is
\* `COUNTRY_CODES.country_from_iso(country) is not None`; resolved is the code
\* of COUNTRY_CODES.match_country(country), None when nothing matches.
country_code_for(country, known, resolved) ==
    IF known THEN country
    ELSE IF resolved # None THEN TheValue(resolved)
    ELSE country

\* r is what FX_CODES.currency_iso_from_country(country_code) did; name is
\* what FX_CODES.currency_from_currency_iso answers for the code found.
main_currency_iso_from_country(country, r, name) ==
    IF r.kind = "raise" THEN Raised
    ELSE IF r.value = None
    THEN [outcome |-> "unknown",
          printed |-> Printed("Unknown country or organization: {country}",
                              country, EmptyStr, None),
          status |-> Some(-1)]
    ELSE [outcome |-> "success",
          printed |-> Printed("{country}: {iso} ({currency})",
                              country, TheValue(r.value), name),
          status |-> Some(0)]

\* The codes match_country / iso_from_country may resolve a name to.
ResolvedCodes == { <<"U","S">> }

(***************************************************************************)
(* State.                                                                  *)
(***************************************************************************)
VARIABLES
    file,                                \* the entries of data_file
    json_data,                           \* cached properties: None until
    currency_to_currency_iso_map,        \* first accessed
    currency_iso_to_currency_map,
    country_to_currency_isos_map,
    currency_iso_to_countries_map,
    currency_iso_to_owner_country_map,
    country_to_primary_currency_iso_map,
    out,                                 \* what the last call did
    ncalls                               \* calls made by this process

caches == << json_data, currency_to_currency_iso_map, currency_iso_to_currency_map,
             country_to_currency_isos_map, currency_iso_to_countries_map,
             currency_iso_to_owner_country_map, country_to_primary_currency_iso_map >>
vars == << file, caches, out, ncalls >>

\* functools.cached_property: the cached value if there is one, else the
\* value computed now.
cached_property(cache, computed) == IF cache = None THEN computed ELSE TheValue(cache)

get_json_data == cached_property(json_data, build_json_data(file))
get_currency_to_currency_iso_map ==
    cached_property(currency_to_currency_iso_map,
                    build_currency_to_currency_iso_map(get_json_data))
get_currency_iso_to_currency_map ==
    cached_property(currency_iso_to_currency_map,
                    build_currency_iso_to_currency_map(get_json_data))
get_country_to_currency_isos_map ==
    cached_property(country_to_currency_isos_map,
                    build_country_to_currency_isos_map(get_json_data))
get_currency_iso_to_countries_map ==
    cached_property(currency_iso_to_countries_map,
                    build_currency_iso_to_countries_map(get_json_data))
get_currency_iso_to_owner_country_map ==
    cached_property(currency_iso_to_owner_country_map,
                    build_currency_iso_to_owner_country_map(get_json_data))
get_country_to_primary_currency_iso_map ==
    cached_property(country_to_primary_currency_iso_map,
                    build_country_to_primary_currency_iso_map(get_json_data))

\* What the last call did: the method or operation, its argument, the key it
\* handed to the registry, what the collaborator answered (where asked), what
\* the registry did, and what the operation showed.
NoCall == [op |-> "none", arg |-> EmptyStr, key |-> EmptyStr, known |-> FALSE,
           resolved |-> None, result |-> Return(None), cli |-> NoOutput]
Called(op, arg, result) ==
    [op |-> op, arg |-> arg, key |-> arg, known |-> FALSE, resolved |-> None,
     result |-> result, cli |-> NoOutput]

\* FX_CODES = FxCodes(): nothing is read until the first query.
Init ==
    /\ file \in DataFiles
    /\ json_data = None
    /\ currency_to_currency_iso_map = None
    /\ currency_iso_to_currency_map = None
    /\ country_to_currency_isos_map = None
    /\ currency_iso_to_countries_map = None
    /\ currency_iso_to_owner_country_map = None
    /\ country_to_primary_currency_iso_map = None
    /\ out = NoCall
    /\ ncalls = 0

(***************************************************************************)
(* Calls of the FxCodes methods.                                           *)
(***************************************************************************)
Call_currency_iso_from_currency(limit) ==
    /\ ncalls < limit
    /\ LET c2i == get_currency_to_currency_iso_map
       IN  \E currency \in CurrencyQueries :
            /\ out' = Called("currency_iso_from_currency", currency,
                             currency_iso_from_currency(c2i, Some(currency)))
            /\ currency_to_currency_iso_map' = Some(AfterGet(c2i, Upper(currency)))
    /\ json_data' = Some(get_json_data)
    /\ ncalls' = ncalls + 1
    /\ UNCHANGED << file, currency_iso_to_currency_map, country_to_currency_isos_map,
                    currency_iso_to_countries_map, currency_iso_to_owner_country_map,
                    country_to_primary_currency_iso_map >>

Call_currency_from_currency_iso(limit) ==
    /\ ncalls < limit
    /\ LET i2c == get_currency_iso_to_currency_map
       IN  \E iso \in IsoQueries :
            /\ out' = Called("currency_from_currency_iso", iso,
                             currency_from_currency_iso(i2c, Some(iso)))
            /\ currency_iso_to_currency_map' = Some(AfterGet(i2c, Upper(iso)))
    /\ json_data' = Some(get_json_data)
    /\ ncalls' = ncalls + 1
    /\ UNCHANGED << file, currency_to_currency_iso_map, country_to_currency_isos_map,
                    currency_iso_to_countries_map, currency_iso_to_owner_country_map,
                    country_to_primary_currency_iso_map >>

Call_currency_isos_from_country(limit) ==
    /\ ncalls < limit
    /\ LET c2is == get_country_to_currency_isos_map
       IN  \E country \in CountryQueries :
            /\ out' = Called("currency_isos_from_country", country,
                             Return(currency_isos_from_country(c2is, country)))
            /\ country_to_currency_isos_map' = Some(AfterGet(c2is, Upper(country)))
    /\ json_data' = Some(get_json_data)
    /\ ncalls' = ncalls + 1
    /\ UNCHANGED << file, currency_to_currency_iso_map, currency_iso_to_currency_map,
                    currency_iso_to_countries_map, currency_iso_to_owner_country_map,
                    country_to_primary_currency_iso_map >>

Call_countries_from_currency_iso(limit) ==
    /\ ncalls < limit
    /\ LET i2cs == get_currency_iso_to_countries_map
       IN  \E iso \in IsoQueries :
            /\ out' = Called("countries_from_currency_iso", iso,
                             Return(countries_from_currency_iso(i2cs, iso)))
            /\ currency_iso_to_countries_map' = Some(AfterGet(i2cs, Upper(iso)))
    /\ json_data' = Some(get_json_data)
    /\ ncalls' = ncalls + 1
    /\ UNCHANGED << file, currency_to_currency_iso_map, currency_iso_to_currency_map,
                    country_to_currency_isos_map, currency_iso_to_owner_country_map,
                    country_to_primary_currency_iso_map >>

\* The primary map is first read on the branch that needs it (line 126).
Call_currency_iso_from_country(limit) ==
    /\ ncalls < limit
    /\ LET c2is == get_country_to_currency_isos_map
           c2p == get_country_to_primary_currency_iso_map
       IN  \E country \in CountryQueries :
            /\ out' = Called("currency_iso_from_country", country,
                             currency_iso_from_country(c2is, c2p, country))
            /\ country_to_currency_isos_map' = Some(AfterGet(c2is, Upper(country)))
            /\ country_to_primary_currency_iso_map' =
                  IF Cardinality(currency_isos_from_country(c2is, country)) >= 2
                  THEN Some(AfterGet(c2p, Upper(country)))
                  ELSE country_to_primary_currency_iso_map
    /\ json_data' = Some(get_json_data)
    /\ ncalls' = ncalls + 1
    /\ UNCHANGED << file, currency_to_currency_iso_map, currency_iso_to_currency_map,
                    currency_iso_to_countries_map, currency_iso_to_owner_country_map >>

\* The owner map is first read on the branch that needs it (line 142).
Call_country_from_currency_iso(limit) ==
    /\ ncalls < limit
    /\ LET i2cs == get_currency_iso_to_countries_map
           i2o == get_currency_iso_to_owner_country_map
       IN  \E iso \in IsoQueries :
            /\ out' = Called("country_from_currency_iso", iso,
                             country_from_currency_iso(i2cs, i2o, iso))
            /\ currency_iso_to_countries_map' = Some(AfterGet(i2cs, Upper(iso)))
            /\ currency_iso_to_owner_country_map' =
                  IF Cardinality(countries_from_currency_iso(i2cs, iso)) >= 2
                  THEN Some(AfterGet(i2o, Upper(iso)))
                  ELSE currency_iso_to_owner_country_map
    /\ json_data' = Some(get_json_data)
    /\ ncalls' = ncalls + 1
    /\ UNCHANGED << file, currency_to_currency_iso_map, currency_iso_to_currency_map,
                    country_to_currency_isos_map, country_to_primary_currency_iso_map >>

(***************************************************************************)
(* Calls of the command line operations of currency_code.py.               *)
(***************************************************************************)
\* `country in COUNTRY_CODES.codes` is asked, and currency_from_currency_iso
\* called for the result line, only once a country was found.
Run_country_from_currency_iso(limit) ==
    /\ ncalls < limit
    /\ LET i2cs == get_currency_iso_to_countries_map
           i2o == get_currency_iso_to_owner_country_map
           i2c == get_currency_iso_to_currency_map
       IN  \E iso \in IsoQueries, in_codes \in BOOLEAN :
            LET r == country_from_currency_iso(i2cs, i2o, iso)
                found == r.kind = "return" /\ r.value # None
                name == currency_from_currency_iso(i2c, Some(iso)).value
            IN  /\ out' = [op |-> "main.country_from_currency_iso", arg |-> iso,
                           key |-> iso, known |-> (found /\ in_codes),
                           resolved |-> None, result |-> r,
                           cli |-> main_country_from_currency_iso(iso, r, in_codes, name)]
                /\ currency_iso_to_countries_map' = Some(AfterGet(i2cs, Upper(iso)))
                /\ currency_iso_to_owner_country_map' =
                      IF Cardinality(countries_from_currency_iso(i2cs, iso)) >= 2
                      THEN Some(AfterGet(i2o, Upper(iso)))
                      ELSE currency_iso_to_owner_country_map
                /\ currency_iso_to_currency_map' =
                      IF found THEN Some(AfterGet(i2c, Upper(iso)))
                      ELSE currency_iso_to_currency_map
    /\ json_data' = Some(get_json_data)
    /\ ncalls' = ncalls + 1
    /\ UNCHANGED << file, currency_to_currency_iso_map, country_to_currency_isos_map,
                    country_to_primary_currency_iso_map >>

\* match_country is asked only when the text is no known country code.
Run_currency_iso_from_country(limit) ==
    /\ ncalls < limit
    /\ LET c2is == get_country_to_currency_isos_map
           c2p == get_country_to_primary_currency_iso_map
           i2c == get_currency_iso_to_currency_map
       IN  \E country \in CountryQueries, known \in BOOLEAN,
              resolved \in {None} \cup {Some(c) : c \in ResolvedCodes} :
            LET country_code == country_code_for(country, known, resolved)
                r == currency_iso_from_country(c2is, c2p, country_code)
                found == r.kind = "return" /\ r.value # None
                name == IF found THEN currency_from_currency_iso(i2c, r.value).value
                        ELSE None
            IN  /\ known => resolved = None
                /\ out' = [op |-> "main.currency_iso_from_country", arg |-> country,
                           key |-> country_code, known |-> known, resolved |-> resolved,
                           result |-> r,
                           cli |-> main_currency_iso_from_country(country, r, name)]
                /\ country_to_currency_isos_map' =
                      Some(AfterGet(c2is, Upper(country_code)))
                /\ country_to_primary_currency_iso_map' =
                      IF Cardinality(currency_isos_from_country(c2is, country_code)) >= 2
                      THEN Some(AfterGet(c2p, Upper(country_code)))
                      ELSE country_to_primary_currency_iso_map
                /\ currency_iso_to_currency_map' =
                      IF found THEN Some(AfterGet(i2c, Upper(TheValue(r.value))))
                      ELSE currency_iso_to_currency_map
    /\ json_data' = Some(get_json_data)
    /\ ncalls' = ncalls + 1
    /\ UNCHANGED << file, currency_to_currency_iso_map, currency_iso_to_countries_map,
                    currency_iso_to_owner_country_map >>

(***************************************************************************)
(* Specifications.                                                         *)
(***************************************************************************)
\* A process that imports FX_CODES and calls its methods, up to MaxQueries
\* times, in any order.
Next ==
    \/ Call_currency_iso_from_currency(MaxQueries)
    \/ Call_currency_from_currency_iso(MaxQueries)
    \/ Call_currency_isos_from_country(MaxQueries)
    \/ Call_countries_from_currency_iso(MaxQueries)
    \/ Call_currency_iso_from_country(MaxQueries)
    \/ Call_country_from_currency_iso(MaxQueries)

Spec == Init /\ [][Next]_vars

\* One run of a process on a freshly constructed FX_CODES: a single method
\* call, or one command line operation as currency_code.py's __main__ makes.
NextFresh ==
    \/ Call_currency_iso_from_currency(1)
    \/ Call_currency_from_currency_iso(1)
    \/ Call_currency_isos_from_country(1)
    \/ Call_countries_from_currency_iso(1)
    \/ Call_currency_iso_from_country(1)
    \/ Call_country_from_currency_iso(1)
    \/ Run_country_from_currency_iso(1)
    \/ Run_currency_iso_from_country(1)

SpecFresh == Init /\ [][NextFresh]_vars

(***************************************************************************)
(* Vocabulary of the properties.                                           *)
(***************************************************************************)
\* The records of the loaded dataset.
Records == build_json_data(file)
\* Keys asked of the registry: those the callers pass, their case variants,
\* and a string that matches nothing.
CountryKeys == CountryQueries \cup { <<"F","r">>, <<"u","s">>, <<"x">> }
IsoKeys == IsoQueries \cup { <<"U","D">>, <<"E","r">>, <<"x">> }
NameKeys == CurrencyQueries \cup { <<"d","r">>, <<"E","U">>, <<"x">> }
MaxOf(S) == CHOOSE x \in S : \A y \in S : y <= x
IsUpper(str) == Upper(str) = str

\* The indexes as the registry's properties give them in the current state.
Indexes ==
    [ c2i  |-> get_currency_to_currency_iso_map,
      i2c  |-> get_currency_iso_to_currency_map,
      c2is |-> get_country_to_currency_isos_map,
      i2cs |-> get_currency_iso_to_countries_map,
      i2o  |-> get_currency_iso_to_owner_country_map,
      c2p  |-> get_country_to_primary_currency_iso_map ]
\* What each method answers on indexes R, under the names the specification
\* gives the methods.
currency_name_for_iso(R, q) == currency_from_currency_iso(R.i2c, Some(q))
iso_for_currency_name(R, opt) == currency_iso_from_currency(R.c2i, opt)
isos_for_country(R, q) == currency_isos_from_country(R.c2is, q)
countries_for_iso(R, q) == countries_from_currency_iso(R.i2cs, q)
primary_iso_for_country(R, q) == currency_iso_from_country(R.c2is, R.c2p, q)
owner_country_for_iso(R, q) == country_from_currency_iso(R.i2cs, R.i2o, q)

\* Among records D: the records of a country (names compared ignoring case),
\* its codes and its records flagged primary.
RecordsOfCountry(D, q) == { i \in DOMAIN D : Upper(D[i].Entity) = Upper(q) }
CodesOfCountry(D, q) == { Iso(D[i]) : i \in RecordsOfCountry(D, q) }
PrimaryRecords(D, q) == { i \in RecordsOfCountry(D, q) : D[i].Primary }
\* The records of a currency code (codes compared ignoring case), its
\* countries and its records flagged owner.
RecordsOfCode(D, q) == { i \in DOMAIN D : Upper(Iso(D[i])) = Upper(q) }
CountriesOfCode(D, q) == { D[i].Entity : i \in RecordsOfCode(D, q) }
OwnerRecords(D, q) == { i \in RecordsOfCode(D, q) : D[i].Owner }
\* The same for the records that store the code in upper case.
RecordsOfUpperCode(D, q) == { i \in DOMAIN D : Iso(D[i]) = Upper(q) }
CountriesOfUpperCode(D, q) == { D[i].Entity : i \in RecordsOfUpperCode(D, q) }
UpperOwnerRecords(D, q) == { i \in RecordsOfUpperCode(D, q) : D[i].Owner }

IsAmbiguity(r, key, candidates) == r = Raise("FxCodesException", key, candidates)

(***************************************************************************)
(* C1                                                                      *)
(***************************************************************************)
CountryAmbiguityRaises(R, D) ==
    \A q \in CountryKeys :
        LET codes == CodesOfCountry(D, q)
        IN  (Cardinality(codes) >= 2 /\ PrimaryRecords(D, q) = {})
                => IsAmbiguity(primary_iso_for_country(R, q), q, codes)

\* C1 as stated: a country with two or more codes and no record flagged
\* primary makes primary_iso_for_country raise the ambiguity error carrying
\* the country and all its codes; a currency code with two or more countries
\* and no record flagged owner makes owner_country_for_iso raise the
\* ambiguity error carrying the code and all its countries.
C1_Original ==
    LET R == Indexes
        D == Records
    IN  /\ CountryAmbiguityRaises(R, D)
        /\ \A q \in IsoKeys :
            LET countries == CountriesOfCode(D, q)
            IN  (Cardinality(countries) >= 2 /\ OwnerRecords(D, q) = {})
                    => IsAmbiguity(owner_country_for_iso(R, q), q, countries)

\* C1 amended: the same, the owner half for the currency codes that the
\* dataset stores in upper case.
C1_AmbiguityRaises ==
    LET R == Indexes
        D == Records
    IN  /\ CountryAmbiguityRaises(R, D)
        /\ \A q \in IsoKeys :
            LET countries == CountriesOfUpperCode(D, q)
            IN  (Cardinality(countries) >= 2 /\ UpperOwnerRecords(D, q) = {})
                    => IsAmbiguity(owner_country_for_iso(R, q), q, countries)

\* The owner lookup was made with a lower-case spelling of a code that two
\* countries share and no record owns, and raised the ambiguity error
\* carrying that spelling and both countries.
C1_Witness ==
    /\ out.op = "country_from_currency_iso"
    /\ ~IsUpper(out.arg)
    /\ LET countries == CountriesOfUpperCode(Records, out.arg)
       IN  /\ Cardinality(countries) = 2
           /\ UpperOwnerRecords(Records, out.arg) = {}
           /\ IsAmbiguity(out.result, out.arg, countries)

(***************************************************************************)
(* C2                                                                      *)
(***************************************************************************)
\* C2: primary_iso_for_country returns None for a country with no code, the
\* code for a country with one, and the code of a record flagged primary for
\* a country with two or more codes and such a record, never raising;
\* owner_country_for_iso likewise with the countries of a code and the
\* records flagged owner (stated here for the codes stored in upper case).
C2_DisambiguationOrder ==
    LET R == Indexes
        D == Records
    IN  /\ \A q \in CountryKeys :
            LET codes == CodesOfCountry(D, q)
            IN  /\ Cardinality(codes) = 0 => primary_iso_for_country(R, q) = Return(None)
                /\ Cardinality(codes) = 1 => primary_iso_for_country(R, q) = Return(codes)
                /\ (Cardinality(codes) >= 2 /\ PrimaryRecords(D, q) # {})
                      => \E i \in PrimaryRecords(D, q) :
                            primary_iso_for_country(R, q) = Return(Some(Iso(D[i])))
        /\ \A q \in IsoKeys :
            LET countries == CountriesOfUpperCode(D, q)
            IN  /\ Cardinality(countries) = 0 => owner_country_for_iso(R, q) = Return(None)
                /\ Cardinality(countries) = 1
                      => owner_country_for_iso(R, q) = Return(countries)
                /\ (Cardinality(countries) >= 2 /\ UpperOwnerRecords(D, q) # {})
                      => \E i \in UpperOwnerRecords(D, q) :
                            owner_country_for_iso(R, q) = Return(Some(D[i].Entity))

(***************************************************************************)
(* C3                                                                      *)
(***************************************************************************)
IsMainCall ==
    out.op \in {"main.country_from_currency_iso", "main.currency_iso_from_country"}
\* What the registry answers to the query the operation made.
RegistryAnswer ==
    IF out.op = "main.country_from_currency_iso"
    THEN owner_country_for_iso(Indexes, out.key)
    ELSE primary_iso_for_country(Indexes, out.key)

\* C3: an operation shows the unknown message with a non-zero status exactly
\* when the registry returned None, a result line with status 0 exactly when
\* it returned a value, and when the registry raised the ambiguity error the
\* error propagates and nothing is shown.
C3_Outcomes ==
    IsMainCall =>
        LET r == RegistryAnswer
            returned_none == r.kind = "return" /\ r.value = None
            returned_value == r.kind = "return" /\ r.value # None
        IN  /\ (out.cli.outcome = "unknown") <=> returned_none
            /\ out.cli.outcome = "unknown" =>
                  /\ out.cli.status # None
                  /\ TheValue(out.cli.status) # 0
                  /\ out.cli.printed.template \in
                        { "Unknown currency ISO: {iso}",
                          "Unknown country or organization: {country}" }
            /\ (out.cli.outcome = "success") <=> returned_value
            /\ out.cli.outcome = "success" =>
                  /\ out.cli.status = Some(0)
                  /\ out.cli.printed.template \in
                        { "{iso}: {country} ({currency})",
                          "{country}: {iso} ({currency})" }
            /\ r.kind = "raise" =>
                  /\ out.cli = Raised
                  /\ out.result = r

\* An operation has met an ambiguity: the error left it, nothing was shown.
C3_Witness ==
    /\ IsMainCall
    /\ out.result.kind = "raise"
    /\ out.result.exc = "FxCodesException"
    /\ out.cli.outcome = "raise"

(***************************************************************************)
(* C4                                                                      *)
(***************************************************************************)
\* iso_for_currency_name(currency_name_for_iso(c)): the second call is made
\* with whatever the first returned.
RoundTrip(R, c) == iso_for_currency_name(R, currency_name_for_iso(R, c).value)
\* The name the registry gives code c: that of the last record storing c.
NameOfCode(D, c) == D[MaxOf({ i \in DOMAIN D : Iso(D[i]) = c })].Currency
\* Some record with another code carries that name, ignoring case.
NameIsShared(D, c) ==
    \E i \in DOMAIN D :
        Iso(D[i]) # c /\ Upper(D[i].Currency) = Upper(NameOfCode(D, c))

\* C4 as stated: for every ISO code c of the loaded dataset,
\* iso_for_currency_name(currency_name_for_iso(c)) returns c.
C4_Original ==
    LET R == Indexes
        D == Records
    IN  \A i \in DOMAIN D : RoundTrip(R, Iso(D[i])) = Return(Some(Iso(D[i])))

\* C4 amended: the round trip returns c for every ISO code c that the
\* dataset stores in upper case and whose currency name is carried, ignoring
\* case, by no record with a different code.
C4_RoundTrip ==
    LET R == Indexes
        D == Records
    IN  \A i \in DOMAIN D :
            LET c == Iso(D[i])
            IN  (IsUpper(c) /\ ~NameIsShared(D, c)) => RoundTrip(R, c) = Return(Some(c))

\* Both legs were called, in a registry of two codes with two names: the
\* first leg cached its index, the second was given the name of a code and
\* returned that code.
C4_Witness ==
    /\ ncalls = 2
    /\ currency_iso_to_currency_map # None
    /\ out.op = "currency_iso_from_currency"
    /\ LET D == Records
       IN  /\ Cardinality({ D[i].Currency : i \in DOMAIN D }) = 2
           /\ \E i \in DOMAIN D :
                LET c == Iso(D[i])
                IN  /\ IsUpper(c)
                    /\ c # EmptyStr
                    /\ ~NameIsShared(D, c)
                    /\ out.arg = NameOfCode(D, c)
                    /\ out.result = Return(Some(c))

(***************************************************************************)
(* C5                                                                      *)
(***************************************************************************)
\* Two results agree when they are the same but for the spelling of the key
\* that an error carries.
SameAnswer(r1, r2) ==
    IF r1.kind = "raise" /\ r2.kind = "raise"
    THEN r1.exc = r2.exc /\ r1.candidates = r2.candidates
    ELSE r1 = r2
\* A query that equals record i's country, or currency name, up to case
\* finds the record's entry.
FoundByCountry(R, D, i, q) ==
    Upper(q) = Upper(D[i].Entity) =>
        /\ Iso(D[i]) \in isos_for_country(R, q)
        /\ primary_iso_for_country(R, q) # Return(None)
FoundByName(R, D, i, q) ==
    Upper(q) = Upper(D[i].Currency) => iso_for_currency_name(R, Some(q)).value # None
\* The same for the record's ISO code.
FoundByIso(R, D, i, q) ==
    Upper(q) = Upper(Iso(D[i])) =>
        /\ currency_name_for_iso(R, q).value # None
        /\ D[i].Entity \in countries_for_iso(R, q)
        /\ owner_country_for_iso(R, q) # Return(None)
\* Case variants of one key get the same answer from all six methods: each
\* query gets the answer its upper-case form gets.
CaseVariantsAgree(R) ==
    /\ \A q \in IsoKeys :
        LET u == Upper(q)
        IN  /\ currency_name_for_iso(R, q) = currency_name_for_iso(R, u)
            /\ countries_for_iso(R, q) = countries_for_iso(R, u)
            /\ SameAnswer(owner_country_for_iso(R, q), owner_country_for_iso(R, u))
    /\ \A q \in NameKeys :
        iso_for_currency_name(R, Some(q)) = iso_for_currency_name(R, Some(Upper(q)))
    /\ \A q \in CountryKeys :
        LET u == Upper(q)
        IN  /\ isos_for_country(R, q) = isos_for_country(R, u)
            /\ SameAnswer(primary_iso_for_country(R, q), primary_iso_for_country(R, u))

\* C5 as stated: whatever case the dataset stores, a query equal up to case
\* to a record's ISO code, currency name or country finds that record's
\* entry, and case variants of a key get the same result.
C5_Original ==
    LET R == Indexes
        D == Records
    IN  /\ \A i \in DOMAIN D :
            /\ \A q \in CountryKeys : FoundByCountry(R, D, i, q)
            /\ \A q \in NameKeys : FoundByName(R, D, i, q)
            /\ \A q \in IsoKeys : FoundByIso(R, D, i, q)
        /\ CaseVariantsAgree(R)

\* C5 amended: the same for countries and currency names whatever case the
\* dataset stores, and for the ISO codes that the dataset stores in upper
\* case.
C5_CaseInsensitive ==
    LET R == Indexes
        D == Records
    IN  /\ \A i \in DOMAIN D :
            /\ \A q \in CountryKeys : FoundByCountry(R, D, i, q)
            /\ \A q \in NameKeys : FoundByName(R, D, i, q)
            /\ IsUpper(Iso(D[i])) => \A q \in IsoKeys : FoundByIso(R, D, i, q)
        /\ CaseVariantsAgree(R)

\* A lower-case query has found the record of an ISO code, in a registry that
\* stores a country and a currency name in other than upper case.
C5_Witness ==
    /\ out.op = "currency_from_currency_iso"
    /\ ~IsUpper(out.arg)
    /\ out.result.kind = "return"
    /\ out.result.value # None
    /\ \E i \in DOMAIN Records :
        /\ Iso(Records[i]) = Upper(out.arg)
        /\ ~IsUpper(Records[i].Entity)
        /\ ~IsUpper(Records[i].Currency)

(***************************************************************************)
(* C6                                                                      *)
(***************************************************************************)
HasCode(entry) == entry.AlphabeticCode # None
Coded == { i \in DOMAIN file : HasCode(file[i]) }
\* Every key of every index comes from an entry of the file that has a code.
IndexesFromCoded(R) ==
    /\ DOMAIN R.c2i = { Upper(file[i].Currency) : i \in Coded }
    /\ DOMAIN R.i2c = { Iso(file[i]) : i \in Coded }
    /\ DOMAIN R.c2is = { Upper(file[i].Entity) : i \in Coded }
    /\ DOMAIN R.i2cs = { Iso(file[i]) : i \in Coded }
    /\ DOMAIN R.i2o = { Iso(file[i]) : i \in { j \in Coded : file[j].Owner } }
    /\ DOMAIN R.c2p = { Upper(file[i].Entity) : i \in { j \in Coded : file[j].Primary } }

\* C6 as stated: no retained record has a missing or empty ISO code.
C6_Original ==
    LET data == get_json_data
    IN  \A i \in DOMAIN data :
            /\ data[i].AlphabeticCode # None
            /\ data[i].AlphabeticCode # Some(EmptyStr)

\* C6 amended: no retained record has a missing ISO code: every entry whose
\* AlphabeticCode is absent or null is discarded and contributes to no
\* index, and every other entry, one with an empty code included, is
\* retained.
C6_Loaded ==
    LET data == get_json_data
    IN  /\ \A i \in DOMAIN data : data[i].AlphabeticCode # None
        /\ Len(data) = Cardinality(Coded)
        /\ \A i \in Coded : \E j \in DOMAIN data : data[j] = file[i]
        /\ IndexesFromCoded(Indexes)

\* The file was loaded: an entry without a code was dropped, an entry with
\* an empty code was kept and is found.
C6_Witness ==
    /\ json_data # None
    /\ Len(TheValue(json_data)) = 1
    /\ Len(file) = 2
    /\ TheValue(json_data)[1].AlphabeticCode = Some(EmptyStr)
    /\ out.op = "currency_from_currency_iso"
    /\ out.arg = EmptyStr
    /\ out.result.value # None

(***************************************************************************)
(* C7                                                                      *)
(***************************************************************************)
SeveralPrimaries(D, q) ==
    Cardinality(CodesOfCountry(D, q)) >= 2 /\ Cardinality(PrimaryRecords(D, q)) >= 2

\* C7 as stated: a country with two or more codes and more than one record
\* flagged primary makes primary_iso_for_country raise the ambiguity error.
C7_Original ==
    LET R == Indexes
        D == Records
    IN  \A q \in CountryKeys :
            SeveralPrimaries(D, q) => primary_iso_for_country(R, q).kind = "raise"

\* C7 amended: for such a country loading does not fail and
\* primary_iso_for_country returns, without an error, the code of the last
\* record flagged primary.
C7_LastPrimaryWins ==
    LET R == Indexes
        D == Records
    IN  \A q \in CountryKeys :
            SeveralPrimaries(D, q) =>
                primary_iso_for_country(R, q) =
                    Return(Some(Iso(D[MaxOf(PrimaryRecords(D, q))])))

\* The lookup was made for a country with two codes, both flagged primary.
C7_Witness ==
    /\ out.op = "currency_iso_from_country"
    /\ json_data = Some(Records)
    /\ out.result.kind = "return"
    /\ SeveralPrimaries(Records, out.arg)
    /\ Cardinality({ Iso(Records[i]) : i \in PrimaryRecords(Records, out.arg) }) >= 2

(***************************************************************************)
(* C8                                                                      *)
(***************************************************************************)
\* The indexes an eager construction computes from the file.
Eager ==
    LET D == build_json_data(file)
    IN  [ c2i  |-> build_currency_to_currency_iso_map(D),
          i2c  |-> build_currency_iso_to_currency_map(D),
          c2is |-> build_country_to_currency_isos_map(D),
          i2cs |-> build_currency_iso_to_countries_map(D),
          i2o  |-> build_currency_iso_to_owner_country_map(D),
          c2p  |-> build_country_to_primary_currency_iso_map(D) ]
\* What method op answers to arg as the first query on such a registry.
FirstAnswer(E, op, arg) ==
    CASE op = "currency_iso_from_currency" -> iso_for_currency_name(E, Some(arg))
      [] op = "currency_from_currency_iso" -> currency_name_for_iso(E, arg)
      [] op = "currency_isos_from_country" -> Return(isos_for_country(E, arg))
      [] op = "countries_from_currency_iso" -> Return(countries_for_iso(E, arg))
      [] op \in {"currency_iso_from_country", "main.currency_iso_from_country"}
            -> primary_iso_for_country(E, arg)
      [] op \in {"country_from_currency_iso", "main.country_from_currency_iso"}
            -> owner_country_for_iso(E, arg)

\* C8: after any sequence of queries, every index that has been constructed
\* holds exactly what is computed from the record set, no key added by a
\* lookup, and the last query returned what it returns as the first query
\* on a freshly constructed registry.
C8_PureReads ==
    LET E == Eager
    IN  /\ json_data \in {None, Some(build_json_data(file))}
        /\ currency_to_currency_iso_map \in {None, Some(E.c2i)}
        /\ currency_iso_to_currency_map \in {None, Some(E.i2c)}
        /\ country_to_currency_isos_map \in {None, Some(E.c2is)}
        /\ currency_iso_to_countries_map \in {None, Some(E.i2cs)}
        /\ currency_iso_to_owner_country_map \in {None, Some(E.i2o)}
        /\ country_to_primary_currency_iso_map \in {None, Some(E.c2p)}
        /\ out.op # "none" => out.result = FirstAnswer(E, out.op, out.key)

\* A second query, for a country that is not in the dataset, was answered
\* from an index that the first query, which raised, had constructed; the
\* index has not got the key.
C8_Witness ==
    /\ ncalls = 2
    /\ out.op = "currency_isos_from_country"
    /\ out.result = Return({})
    /\ country_to_currency_isos_map # None
    /\ Upper(out.arg) \notin DOMAIN TheValue(country_to_currency_isos_map)
    /\ TheValue(country_to_currency_isos_map) # EmptyDict
    /\ country_to_primary_currency_iso_map # None

(***************************************************************************)
(* C9                                                                      *)
(***************************************************************************)
\* C9: for every string that matches no entry of the dataset, ignoring case,
\* currency_name_for_iso returns None, and isos_for_country and
\* countries_for_iso return the empty set; none raises.
C9_UnknownIsAbsent ==
    LET R == Indexes
        D == Records
    IN  /\ \A q \in IsoKeys :
            RecordsOfCode(D, q) = {} =>
                /\ currency_name_for_iso(R, q) = Return(None)
                /\ countries_for_iso(R, q) = {}
        /\ \A q \in CountryKeys :
            RecordsOfCountry(D, q) = {} => isos_for_country(R, q) = {}
        /\ out.op \in { "currency_from_currency_iso", "currency_isos_from_country",
                        "countries_from_currency_iso" }
              => out.result.kind = "return"

\* A code that no record of a loaded, non-empty dataset stores was asked for,
\* and None returned.
C9_Witness ==
    /\ out.op = "currency_from_currency_iso"
    /\ Len(Records) = 2
    /\ out.arg # EmptyStr
    /\ RecordsOfCode(Records, out.arg) = {}
    /\ out.result = Return(None)

(***************************************************************************)
(* C10                                                                     *)
(***************************************************************************)
\* C10: the key passed to primary_iso_for_country is the text when the text
\* is a known country code, else the code the text resolves to when it
\* resolves, else the text; the registry is asked about that key; and the
\* line shown, result or unknown, carries the text.
C10_KeyOrder ==
    out.op = "main.currency_iso_from_country" =>
        /\ out.known => out.key = out.arg
        /\ (~out.known /\ out.resolved # None) => out.key = TheValue(out.resolved)
        /\ (~out.known /\ out.resolved = None) => out.key = out.arg
        /\ out.result = primary_iso_for_country(Indexes, out.key)
        /\ out.cli.outcome \in {"unknown", "success"}
              => out.cli.printed.subject = out.arg

\* A text that is no country code resolved to a code that differs from it;
\* the registry found the code's currency and the result line carries the
\* text.
C10_Witness ==
    /\ out.op = "main.currency_iso_from_country"
    /\ ~out.known
    /\ out.resolved # None
    /\ out.key # out.arg
    /\ Upper(out.key) # Upper(out.arg)
    /\ out.cli.outcome = "success"
    /\ out.cli.printed.subject = out.arg
    /\ out.cli.printed.found = TheValue(out.result.value)

====
